---- MODULE Spec2Model ----
(***************************************************************************)
(* godep: groups Go source files into packages, records each package's     *)
(* imports, finds the files of package main that declare func main, and    *)
(* prints make dependency lines (src/src/godep.go).                        *)
(*                                                                         *)
(* Strings are sequences of one-character strings, so that Split, Trim and *)
(* Clean are computed character by character.                              *)
(***************************************************************************)
EXTENDS Integers, Sequences, FiniteSets, TLC

\* Largest number of file names on the command line.
MaxFiles == 3
\* Longest file name handed to the root classifier in SpecRoot.
MaxNameLen == 4

VARIABLES showNeeded, files, src, i, packages, roots, parseErr, out, pc

vars == <<showNeeded, files, src, i, packages, roots, parseErr, out, pc>>

----------------------------------------------------------------------------
(* Sequence helpers *)

Range(s) == {s[k] : k \in 1..Len(s)}

NoDup(s) == \A a, b \in 1..Len(s) : s[a] = s[b] => a = b

\* Position of the first occurrence of x in s (0 when absent).
FirstIdx(s, x) ==
    IF \E k \in 1..Len(s) : s[k] = x
    THEN CHOOSE k \in 1..Len(s) : s[k] = x /\ \A j \in 1..(k - 1) : s[j] # x
    ELSE 0

RECURSIVE Concat(_)
Concat(ss) == IF ss = <<>> THEN <<>> ELSE Head(ss) \o Concat(Tail(ss))

\* Every order in which a Go map with key set S can be ranged over.
SetOrders(S) ==
    {s \in [1..Cardinality(S) -> S] : \A a \in S : \E k \in 1..Cardinality(S) : s[k] = a}

\* Every order in which the entries s of a map can be ranged over.
SeqOrders(s) == {[k \in 1..Len(s) |-> s[p[k]]] : p \in Permutations(1..Len(s))}

----------------------------------------------------------------------------
(* String functions of the Go library used by godep *)

\* strings.Split(s, sep, -1) for a one-character separator.
RECURSIVE Split(_, _)
Split(s, sep) ==
    LET k == FirstIdx(s, sep) IN
    IF k = 0 THEN <<s>>
    ELSE <<SubSeq(s, 1, k - 1)>> \o Split(SubSeq(s, k + 1, Len(s)), sep)

RECURSIVE TrimLeft(_, _)
TrimLeft(s, c) == IF Len(s) > 0 /\ s[1] = c THEN TrimLeft(Tail(s), c) ELSE s

RECURSIVE TrimRight(_, _)
TrimRight(s, c) ==
    IF Len(s) > 0 /\ s[Len(s)] = c THEN TrimRight(SubSeq(s, 1, Len(s) - 1), c) ELSE s

\* strings.Trim(s, cutset) for a one-character cutset.
Trim(s, c) == TrimRight(TrimLeft(s, c), c)

RECURSIVE Join(_, _)
Join(elems, sep) ==
    IF elems = <<>> THEN <<>>
    ELSE IF Len(elems) = 1 THEN elems[1]
    ELSE elems[1] \o <<sep>> \o Join(Tail(elems), sep)

DotDot == <<".", ".">>

RECURSIVE CleanElems(_, _, _)
CleanElems(elems, acc, rooted) ==
    IF elems = <<>> THEN acc
    ELSE LET e == Head(elems)
             rest == Tail(elems)
         IN IF e = <<>> \/ e = <<".">> THEN CleanElems(rest, acc, rooted)
            ELSE IF e = DotDot
            THEN IF Len(acc) > 0 /\ acc[Len(acc)] # DotDot
                 THEN CleanElems(rest, SubSeq(acc, 1, Len(acc) - 1), rooted)
                 ELSE IF rooted THEN CleanElems(rest, acc, rooted)
                 ELSE CleanElems(rest, Append(acc, e), rooted)
            ELSE CleanElems(rest, Append(acc, e), rooted)

\* path.Clean: drops empty and "." elements, resolves "..", "" becomes ".".
Clean(p) ==
    LET rooted == Len(p) > 0 /\ p[1] = "/"
        body == Join(CleanElems(Split(p, "/"), <<>>, rooted), "/")
    IN IF rooted THEN <<"/">> \o body
       ELSE IF body = <<>> THEN <<".">> ELSE body

----------------------------------------------------------------------------
(* The inputs: file names, package names and import specs *)

MainName == <<"m", "a", "i", "n">>
LibName == <<"l", "i", "b">>
ExtName == <<"e", "x", "t">>

\* The suffix of a compiled artifact, ".${O}".
DotO == <<".", "$", "{", "O", "}">>
Artifact(name) == name \o DotO

AppGo == <<"a", "p", "p", ".", "g", "o">>
AppV2Go == <<"a", "p", "p", ".", "v", "2", ".", "g", "o">>
LibFile == <<"l", "i", "b">>
MainGo == <<"m", "a", "i", "n", ".", "g", "o">>

FileNames == {AppGo, AppV2Go, LibFile}
PkgNames == {MainName, LibName, ExtName}

\* spec.Path.Value of an import spec: the path with its quotes.
Quoted(p) == <<"\"">> \o p \o <<"\"">>
ImportLib == Quoted(LibName)
ImportExt == Quoted(ExtName)
ImportDotExt == Quoted(<<".", "/">> \o ExtName)

\* The import specs one file can hold.
ImportLists == {<<>>, <<ImportLib>>, <<ImportDotExt, ImportExt>>}

\* What parser.ParseFile(fname, nil, parser.ImportsOnly) yields for a file.
Contents == [pkg : PkgNames, imports : ImportLists]

NoSrc == [pkg |-> <<>>, imports |-> <<>>]

NoPackages == [p \in {} |-> 0]
NoRoots == [f \in {} |-> 0]

----------------------------------------------------------------------------
(* Registration: HandleFile and ImportVisitor *)

\* ImportVisit without the lookup that precedes the insertion.
ImportVisitNoCheck(imps, raw) == Append(imps, Clean(Trim(raw, "\"")))

\* ImportVisitor.Visit on one import spec, imps being the keys of pkg.packages.
ImportVisit(imps, raw) ==
    LET ppath == Clean(Trim(raw, "\"")) IN
    IF ppath \in Range(imps) THEN imps ELSE Append(imps, ppath)

\* ast.Walk of the ImportVisitor over the import specs of a file.
RECURSIVE WalkImports(_, _)
WalkImports(imps, specs) ==
    IF specs = <<>> THEN imps
    ELSE WalkImports(ImportVisit(imps, Head(specs)), Tail(specs))

NewPackage == [files |-> <<>>, packages |-> <<>>, hasMain |-> FALSE]

\* HandleFile putting the file in front of the package's files.
HandleFilePrepend(pkgs, fname, file) ==
    LET pkgname == file.pkg
        created == IF pkgname \in DOMAIN pkgs THEN pkgs
                   ELSE [p \in DOMAIN pkgs \cup {pkgname} |->
                            IF p = pkgname THEN NewPackage ELSE pkgs[p]]
        pushed == [created EXCEPT ![pkgname].files = <<fname>> \o @]
    IN [pushed EXCEPT ![pkgname].packages = WalkImports(@, file.imports)]

HandleFile(pkgs, fname, file) ==
    LET pkgname == file.pkg
        created == IF pkgname \in DOMAIN pkgs THEN pkgs
                   ELSE [p \in DOMAIN pkgs \cup {pkgname} |->
                            IF p = pkgname THEN NewPackage ELSE pkgs[p]]
        pushed == [created EXCEPT ![pkgname].files = Append(@, fname)]
    IN [pushed EXCEPT ![pkgname].packages = WalkImports(@, file.imports)]

----------------------------------------------------------------------------
(* Root classification: FindMain, MainCheckVisitor and addRoot *)

\* addRoot stripping the last extension only.
addRootStripExt(r, filename) ==
    LET fparts == Split(filename, ".")
        basename == IF Len(fparts) = 1 THEN fparts[1]
                    ELSE Join(SubSeq(fparts, 1, Len(fparts) - 1), ".")
    IN [f \in DOMAIN r \cup {filename} |-> IF f = filename THEN basename ELSE r[f]]

addRoot(r, filename) ==
    LET fparts == Split(filename, ".")
        basename == fparts[1]
    IN [f \in DOMAIN r \cup {filename} |-> IF f = filename THEN basename ELSE r[f]]

\* MainCheckVisitor.Visit on one node of the file fname.
NodeKinds == {"FuncDecl", "GenDecl"}
DeclNames == {MainName, LibName}
MainCheckVisit(r, fname, kind, declName) ==
    IF kind = "FuncDecl" /\ declName = MainName THEN addRoot(r, fname) ELSE r

\* FindMain over the files of package main; entry[f] tells whether the walk
\* of f meets a FuncDecl named main.
RECURSIVE FindMainFiles(_, _, _)
FindMainFiles(r, fnames, entry) ==
    IF fnames = <<>> THEN r
    ELSE FindMainFiles(
            IF entry[Head(fnames)]
            THEN MainCheckVisit(r, Head(fnames), "FuncDecl", MainName)
            ELSE r,
            Tail(fnames), entry)

FindMain(pkgs, r, entry) ==
    IF MainName \in DOMAIN pkgs THEN FindMainFiles(r, pkgs[MainName].files, entry) ELSE r

MainFileSet(pkgs) ==
    IF MainName \in DOMAIN pkgs THEN Range(pkgs[MainName].files) ELSE {}

----------------------------------------------------------------------------
(* Emission: PrintNeeded, PrintFList and PrintDeps.  A line of output is   *)
(* a record: its kind, the target before the colon (empty for the two list *)
(* lines) and the items printed after it, in order.  Ranging over a Go map *)
(* has no specified order, so each printer yields the set of lines it can  *)
(* print.                                                                  *)

Line(kind, target, items) == [kind |-> kind, target |-> target, items |-> items]

\* One order of ranging over pkg.packages for every package.
ImportOrders(pkgs) ==
    {io \in [DOMAIN pkgs -> UNION {SeqOrders(pkgs[p].packages) : p \in DOMAIN pkgs}] :
        \A p \in DOMAIN pkgs : io[p] \in SeqOrders(pkgs[p].packages)}

\* NeededFold without the map of dependencies already displayed.
RECURSIVE NeededFoldNoDone(_, _, _, _)
NeededFoldNoDone(visit, pkgs, done, ppost) ==
    IF visit = <<>> THEN <<>>
    ELSE IF Head(visit) \notin DOMAIN pkgs
         THEN <<Head(visit) \o ppost>> \o NeededFoldNoDone(Tail(visit), pkgs, done, ppost)
         ELSE NeededFoldNoDone(Tail(visit), pkgs, done, ppost)

\* The loop body of PrintNeeded over the import targets in the order visited.
RECURSIVE NeededFold(_, _, _, _)
NeededFold(visit, pkgs, done, ppost) ==
    IF visit = <<>> THEN <<>>
    ELSE LET pkgname == Head(visit) IN
         IF pkgname \notin DOMAIN pkgs /\ pkgname \notin done
         THEN <<pkgname \o ppost>>
              \o NeededFold(Tail(visit), pkgs, done \cup {pkgname}, ppost)
         ELSE NeededFold(Tail(visit), pkgs, done, ppost)

PrintNeeded(pkgs, kind, ppost) ==
    {Line(kind, <<>>,
          NeededFold(Concat([k \in 1..Len(po) |-> io[po[k]]]), pkgs, {}, ppost)) :
        po \in SetOrders(DOMAIN pkgs), io \in ImportOrders(pkgs)}

\* FListFold without the map of files already displayed.
RECURSIVE FListFoldNoDone(_, _)
FListFoldNoDone(visit, done) ==
    IF visit = <<>> THEN <<>>
    ELSE <<Head(visit)>> \o FListFoldNoDone(Tail(visit), done)

\* The loop body of PrintFList over the file names in the order visited.
RECURSIVE FListFold(_, _)
FListFold(visit, done) ==
    IF visit = <<>> THEN <<>>
    ELSE LET fname == Head(visit) IN
         IF fname \notin done
         THEN <<fname>> \o FListFold(Tail(visit), done \cup {fname})
         ELSE FListFold(Tail(visit), done)

PrintFList(pkgs) ==
    {Line("gofiles", <<>>,
          FListFold(Concat([k \in 1..Len(po) |-> pkgs[po[k]].files]), {})) :
        po \in SetOrders(DOMAIN pkgs)}

\* PkgRule printing the registered imports only, whatever show-needed is.
PkgRuleRegisteredOnly(pkgs, pkgname, sn, order) ==
    Line("pkgrule", Artifact(pkgname),
         pkgs[pkgname].files
         \o Concat([k \in 1..Len(order) |->
                IF order[k] \in DOMAIN pkgs THEN <<Artifact(order[k])>> ELSE <<>>]))

\* The rule of one package other than main; order is the order in which
\* its imports are ranged over.
PkgRule(pkgs, pkgname, sn, order) ==
    Line("pkgrule", Artifact(pkgname),
         pkgs[pkgname].files
         \o Concat([k \in 1..Len(order) |->
                IF order[k] \in DOMAIN pkgs \/ sn
                THEN <<Artifact(order[k])>> ELSE <<>>]))

\* The imports printed in the rule of one root.
RECURSIVE RootDeps(_, _, _, _)
RootDeps(order, pkgs, sn, done) ==
    IF order = <<>> THEN <<>>
    ELSE LET pkgname == Head(order) IN
         IF pkgname \in DOMAIN pkgs \/ (sn /\ pkgname \notin done)
         THEN <<Artifact(pkgname)>>
              \o RootDeps(Tail(order), pkgs, sn, done \cup {pkgname})
         ELSE RootDeps(Tail(order), pkgs, sn, done)

\* CommonFiles taking every file of package main as common.
CommonFilesAll(mainFiles, r) == mainFiles

\* The files of package main that are not roots.
CommonFiles(mainFiles, r) == SelectSeq(mainFiles, LAMBDA f : f \notin DOMAIN r)

RootLink(r, fname) == Line("rootlink", r[fname], <<Artifact(r[fname])>>)

RootRule(pkgs, r, fname, common, sn, order) ==
    Line("rootrule", Artifact(r[fname]),
         <<fname>> \o common \o RootDeps(order, pkgs, sn, {}))

\* The positions in main.files that hold a root, in order.
RootPositions(mainFiles, r) ==
    SelectSeq([k \in 1..Len(mainFiles) |-> k], LAMBDA k : mainFiles[k] \in DOMAIN r)

\* The lines of PrintDeps for package main; ro[n] is the order in which the
\* rule of the n-th root ranges over main.packages.
MainRules(pkgs, r, sn, ro) ==
    IF MainName \notin DOMAIN pkgs THEN <<>>
    ELSE LET main == pkgs[MainName]
             common == CommonFiles(main.files, r)
             rpos == RootPositions(main.files, r)
         IN [n \in 1..Len(rpos) |-> RootLink(r, main.files[rpos[n]])]
            \o [n \in 1..Len(rpos) |->
                  RootRule(pkgs, r, main.files[rpos[n]], common, sn, ro[n])]

\* One order of ranging over main.packages for every root rule.
RootOrders(pkgs, r) ==
    IF MainName \notin DOMAIN pkgs THEN {<<>>}
    ELSE [1..Len(RootPositions(pkgs[MainName].files, r)) ->
             SeqOrders(pkgs[MainName].packages)]

PrintDeps(pkgs, r, sn) ==
    {Concat([k \in 1..Len(po) |->
         IF po[k] # MainName THEN <<PkgRule(pkgs, po[k], sn, io[po[k]])>> ELSE <<>>])
     \o MainRules(pkgs, r, sn, ro) :
        po \in SetOrders(DOMAIN pkgs), io \in ImportOrders(pkgs), ro \in RootOrders(pkgs, r)}

----------------------------------------------------------------------------
(* main: the run of the program *)

\* The argument lists of a run.
FileLists == UNION {[1..n -> FileNames] : n \in 0..MaxFiles}

Init ==
    /\ showNeeded \in BOOLEAN
    /\ files \in FileLists
    /\ src = [f \in FileNames |-> NoSrc]
    /\ i = 1
    /\ packages = NoPackages
    /\ roots = NoRoots
    /\ parseErr = "none"
    /\ out = <<>>
    /\ pc = "parse"

\* parser.ParseFile fails on files[i]: the error is printed and the run exits 1.
MainParseError ==
    /\ pc = "parse"
    /\ i <= Len(files)
    /\ src[files[i]] = NoSrc
    /\ parseErr' = "fatal"
    /\ pc' = "exit1"
    /\ UNCHANGED <<showNeeded, files, src, i, packages, roots, out>>

\* parser.ParseFile succeeds on files[i] and HandleFile registers it.  A file
\* named twice parses to the same thing twice.
MainHandleFile ==
    /\ pc = "parse"
    /\ i <= Len(files)
    /\ \E file \in Contents :
        /\ src[files[i]] \in {NoSrc, file}
        /\ src' = [src EXCEPT ![files[i]] = file]
        /\ packages' = HandleFile(packages, files[i], file)
    /\ i' = i + 1
    /\ UNCHANGED <<showNeeded, files, roots, parseErr, out, pc>>

\* FindMain: the second parse of every file of package main drops its error.
MainFindMain ==
    /\ pc = "parse"
    /\ i > Len(files)
    /\ \E entry \in [MainFileSet(packages) -> BOOLEAN], err \in BOOLEAN :
        /\ err => MainFileSet(packages) # {}
        /\ roots' = FindMain(packages, roots, entry)
        /\ parseErr' = IF err THEN "ignored" ELSE parseErr
    /\ pc' = IF showNeeded THEN "external" ELSE "comment"
    /\ UNCHANGED <<showNeeded, files, src, i, packages, out>>

MainPrintExternal ==
    /\ pc = "external"
    /\ \E line \in PrintNeeded(packages, "external", DotO) : out' = Append(out, line)
    /\ pc' = "comment"
    /\ UNCHANGED <<showNeeded, files, src, i, packages, roots, parseErr>>

MainPrintComment ==
    /\ pc = "comment"
    /\ \E line \in PrintNeeded(packages, "comment", <<>>) : out' = Append(out, line)
    /\ pc' = "flist"
    /\ UNCHANGED <<showNeeded, files, src, i, packages, roots, parseErr>>

MainPrintFList ==
    /\ pc = "flist"
    /\ \E line \in PrintFList(packages) : out' = Append(out, line)
    /\ pc' = "deps"
    /\ UNCHANGED <<showNeeded, files, src, i, packages, roots, parseErr>>

MainPrintDeps ==
    /\ pc = "deps"
    /\ \E lines \in PrintDeps(packages, roots, showNeeded) : out' = out \o lines
    /\ pc' = "done"
    /\ UNCHANGED <<showNeeded, files, src, i, packages, roots, parseErr>>

Next ==
    \/ MainParseError
    \/ MainHandleFile
    \/ MainFindMain
    \/ MainPrintExternal
    \/ MainPrintComment
    \/ MainPrintFList
    \/ MainPrintDeps

Spec == Init /\ [][Next]_vars

\* The exit status of a run that has ended.
ExitCode == IF pc = "exit1" THEN 1 ELSE 0

----------------------------------------------------------------------------
(* The root classifier alone: one node of one file is visited.  The file   *)
(* names are all strings over NameChars up to MaxNameLen, and two longer   *)
(* ones.                                                                   *)

NameChars == {"a", "b", "."}
NameInputs ==
    UNION {[1..n -> NameChars] : n \in 1..MaxNameLen} \cup {MainGo, AppV2Go}

InitRoot ==
    /\ showNeeded = FALSE
    /\ files \in {<<n>> : n \in NameInputs}
    /\ src = [f \in FileNames |-> NoSrc]
    /\ i = 1
    /\ packages = NoPackages
    /\ roots = NoRoots
    /\ parseErr = "none"
    /\ out = <<>>
    /\ pc = "classify"

RootVisit ==
    /\ pc = "classify"
    /\ \E kind \in NodeKinds, declName \in DeclNames :
        roots' = MainCheckVisit(roots, files[1], kind, declName)
    /\ pc' = "classified"
    /\ UNCHANGED <<showNeeded, files, src, i, packages, parseErr, out>>

NextRoot == RootVisit

SpecRoot == InitRoot /\ [][NextRoot]_vars

----------------------------------------------------------------------------
(* Properties *)

LinesOf(kinds) == {k \in 1..Len(out) : out[k].kind \in kinds}

\* The import path an import spec is registered under.
Cleaned(specs) == [k \in 1..Len(specs) |-> Clean(Trim(specs[k], "\""))]

RegisteredImports == UNION {Range(packages[p].packages) : p \in DOMAIN packages}
ExternalTargets == {q \in RegisteredImports : q \notin DOMAIN packages}
NeededSuffix(kind) == IF kind = "external" THEN DotO ELSE <<>>

\* C1: every external-dependency line holds exactly the import targets that
\* name no registered package, each of them once.
C1_NeededExact ==
    \A k \in LinesOf({"external", "comment"}) :
        /\ Range(out[k].items) =
              {q \o NeededSuffix(out[k].kind) : q \in ExternalTargets}
        /\ NoDup(out[k].items)

\* Two packages import ext, which is external, and lib is imported and registered.
C1_Witness ==
    /\ \E k \in LinesOf({"comment"}) : out[k].items = <<ExtName>>
    /\ Cardinality({p \in DOMAIN packages : ExtName \in Range(packages[p].packages)}) >= 2
    /\ LibName \in DOMAIN packages
    /\ LibName \in RegisteredImports

\* C2: the GOFILES line holds every input file exactly once and nothing else.
C2_FListExact ==
    \A k \in LinesOf({"gofiles"}) :
        /\ Range(out[k].items) = Range(files)
        /\ NoDup(out[k].items)

\* A file is named twice and the files span several packages.
C2_Witness ==
    /\ LinesOf({"gofiles"}) # {}
    /\ ~NoDup(files)
    /\ Cardinality(DOMAIN packages) >= 2

\* C3: PrintDeps prints exactly one rule for every registered package other
\* than main; the rule lists every file of the package, and the artifact of
\* an import Q exactly when Q is registered or show-needed is set.
C3_PkgRules ==
    pc = "done" =>
        /\ \A p \in DOMAIN packages \ {MainName} :
              Cardinality({k \in LinesOf({"pkgrule"}) : out[k].target = Artifact(p)}) = 1
        /\ \A k \in LinesOf({"pkgrule"}) :
              \E p \in DOMAIN packages \ {MainName} :
                 /\ out[k].target = Artifact(p)
                 /\ Range(packages[p].files) \subseteq Range(out[k].items)
                 /\ \A q \in Range(packages[p].packages) :
                       Artifact(q) \in Range(out[k].items)
                          <=> (q \in DOMAIN packages \/ showNeeded)

\* A package of two files imports a registered and an unregistered package,
\* without show-needed.
C3_Witness ==
    /\ pc = "done"
    /\ ~showNeeded
    /\ \E p \in DOMAIN packages \ {MainName} :
          /\ Cardinality(Range(packages[p].files)) >= 2
          /\ \E q \in Range(packages[p].packages) : q \in DOMAIN packages
          /\ \E q \in Range(packages[p].packages) : q \notin DOMAIN packages

\* C4: in package main each root has its own rule, which starts with the
\* root's file and lists every common file; the file a root rule is printed
\* for is always a root, and no root is listed as a common file.
C4_Partition ==
    (pc = "done" /\ MainName \in DOMAIN packages) =>
        LET mfiles == packages[MainName].files
            common == {f \in Range(mfiles) : f \notin DOMAIN roots}
            nroots == Cardinality({k \in 1..Len(mfiles) : mfiles[k] \in DOMAIN roots})
        IN /\ \A f \in Range(mfiles) \cap DOMAIN roots :
                 \E k \in LinesOf({"rootrule"}) :
                    /\ out[k].target = Artifact(roots[f])
                    /\ out[k].items[1] = f
                    /\ common \subseteq Range(out[k].items)
           /\ \A k \in LinesOf({"rootrule"}) :
                 /\ out[k].items[1] \in Range(mfiles) \cap DOMAIN roots
                 /\ \A j \in 2..Len(out[k].items) : out[k].items[j] \notin DOMAIN roots
           /\ Cardinality(LinesOf({"rootrule"})) = nroots
           /\ Cardinality(LinesOf({"rootlink"})) = nroots
           /\ \A k \in LinesOf({"rootlink"}) :
                 \E f \in Range(mfiles) \cap DOMAIN roots : out[k].target = roots[f]

\* Two roots share one common file.
C4_Witness ==
    /\ pc = "done"
    /\ MainName \in DOMAIN packages
    /\ Cardinality(Range(packages[MainName].files) \cap DOMAIN roots) = 2
    /\ Cardinality(Range(packages[MainName].files) \ DOMAIN roots) = 1

\* C5: a file that cannot be analyzed, in either parse, ends the run with a
\* non-zero status and no output.
C5_NoSilentFailure ==
    parseErr # "none" => (out = <<>> /\ pc # "done")

\* C6: no package's import set holds the package's own name.
C6_NoSelfImport ==
    \A p \in DOMAIN packages : p \notin Range(packages[p].packages)

\* C7: the target name of a root is the part of its file name before the
\* first ".", and the whole file name when it has no ".".
C7_TargetName ==
    \A f \in DOMAIN roots :
        LET t == roots[f] IN
        /\ "." \notin Range(t)
        /\ Len(t) <= Len(f)
        /\ SubSeq(f, 1, Len(t)) = t
        /\ Len(t) < Len(f) => f[Len(t) + 1] = "."
        /\ f = MainGo => t = MainName
        /\ f = AppV2Go => t = <<"a", "p", "p">>

\* A file name with two "." has been classified as a root.
C7_Witness ==
    /\ pc = "classified"
    /\ \E f \in DOMAIN roots : Cardinality({k \in 1..Len(f) : f[k] = "."}) >= 2

\* The GOFILES line keeps the order of first discovery, between all files
\* or between the files of one package only.
GoFilesOrdered(samePkgOnly) ==
    \A k \in LinesOf({"gofiles"}) :
        \A u, v \in Range(files) :
            (/\ FirstIdx(files, u) < FirstIdx(files, v)
             /\ samePkgOnly => src[u].pkg = src[v].pkg)
            => FirstIdx(out[k].items, u) < FirstIdx(out[k].items, v)

C9_State ==
    /\ \A p \in DOMAIN packages : NoDup(packages[p].packages)
    /\ \A k \in LinesOf({"external", "comment"}) : NoDup(out[k].items)

C9_Step ==
    \A p \in DOMAIN packages :
        Range(packages'[p].packages) = Range(packages[p].packages)
            => packages'[p].packages = packages[p].packages

\* C9: registering an import target a package already has leaves its import
\* set as it was; no import set and no external-dependency line holds a
\* target twice.
C9_Idempotent == [](C9_State) /\ [][C9_Step]_vars

\* Two files of one package each import ext twice, and ext is printed as external.
C9_Witness ==
    /\ \E k \in LinesOf({"comment"}) : ExtName \in Range(out[k].items)
    /\ \E p \in DOMAIN packages :
          \E f, g \in Range(packages[p].files) :
             /\ f # g
             /\ ~NoDup(Cleaned(src[f].imports))
             /\ ExtName \in Range(Cleaned(src[f].imports))
             /\ ExtName \in Range(Cleaned(src[g].imports))

\* C10: no two rules of one run have the same target: the roots have
\* distinct target names, and no root's artifact is the artifact of a
\* registered package other than main.
C10_DistinctTargets ==
    /\ \A a, b \in LinesOf({"pkgrule", "rootlink", "rootrule"}) :
          out[a].target = out[b].target => a = b
    /\ \A f, g \in DOMAIN roots : f # g => roots[f] # roots[g]
    /\ \A f \in DOMAIN roots :
          \A p \in DOMAIN packages \ {MainName} : Artifact(roots[f]) # Artifact(p)

====
